---- MODULE Spec2Model ----
(***************************************************************************)
(* OPGG.py: the cache-backed summoner search (opgg/opgg.py, OPGG.search),  *)
(* the page-props and catalog fetchers it calls (opgg/utils.py) and the    *)
(* persistent cache they share (opgg/cacher.py, modelled from its          *)
(* documented contract).                                                   *)
(*                                                                         *)
(* A summoner name is a sequence of one-character strings, so that the     *)
(* code's tests on the text ('"#" in name', split("#"), strip()) are       *)
(* computed and not assumed.  Each process is one OPGG instance that runs  *)
(* one search call; the store is shared by the processes.                  *)
(***************************************************************************)
EXTENDS Integers, Sequences, FiniteSets, TLC

\* Longest batch of names handed to search.
MaxBatch == 3

\* Python's None (also the value of a missing dict key).
None == "None"

\* The independent process instances (two CLI invocations on one store).
Procs == {"p1", "p2"}

Regions == {"na", "kr"}

(***************************************************************************)
(* Text helpers.                                                           *)
(***************************************************************************)

\* '"#" in summoner_name'
HasSep(s, sep) == \E k \in 1..Len(s) : s[k] = sep

\* str.split(sep): the parts between the separators, in order.
RECURSIVE Split(_, _)
Split(s, sep) ==
    IF ~HasSep(s, sep) THEN <<s>>
    ELSE LET k == CHOOSE k \in 1..Len(s) :
                     s[k] = sep /\ \A m \in 1..(k - 1) : s[m] # sep
         IN  <<SubSeq(s, 1, k - 1)>> \o Split(SubSeq(s, k + 1, Len(s)), sep)

\* str.strip(): leading and trailing blanks removed.
RECURSIVE Strip(_)
Strip(s) ==
    IF s = <<>> THEN s
    ELSE IF Head(s) = " " THEN Strip(Tail(s))
    ELSE IF s[Len(s)] = " " THEN Strip(SubSeq(s, 1, Len(s) - 1))
    ELSE s

(***************************************************************************)
(* The inputs: names a caller may pass, and what the remote site holds.    *)
(***************************************************************************)

NameA1 == <<"a", "#", "1">>
NameB1 == <<"b", "#", "1">>
NameA2 == <<"a", "#", "2">>
NameBad == <<"a">>

Names == {NameA1, NameB1, NameA2, NameBad}

RECURSIVE SeqsUpTo(_, _)
SeqsUpTo(S, n) ==
    IF n = 0 THEN {<<>>}
    ELSE LET shorter == SeqsUpTo(S, n - 1)
         IN  shorter \cup {Append(q, x) : q \in shorter, x \in S}

\* The batches search is called with (a list; the empty list included).
Batches == SeqsUpTo(Names, MaxBatch)

\* The accounts of the remote site.  game_name, tagline and summoner_id
\* are what a multisearch candidate carries; name is the name field of the
\* account's summary, which for some accounts is the full Riot id and for
\* others the game name alone.
Accounts ==
    << [game_name |-> <<"a">>, tagline |-> <<"1">>, summoner_id |-> "s1",
        name |-> <<"a", "#", "1">>],
       [game_name |-> <<"b">>, tagline |-> <<"1">>, summoner_id |-> "s2",
        name |-> <<"b", "#", "1">>],
       [game_name |-> <<"a">>, tagline |-> <<"2">>, summoner_id |-> "s3",
        name |-> <<"a">>] >>

SummonerIds == {Accounts[k].summoner_id : k \in 1..Len(Accounts)}

\* The Riot id of an account as a caller writes it: game_name#tagline.
RiotId(acct) == acct.game_name \o <<"#">> \o acct.tagline

AccountOf(sid) == CHOOSE k \in 1..Len(Accounts) : Accounts[k].summoner_id = sid

\* The subsequence of q at the positions in S.
RECURSIVE Pick(_, _)
Pick(q, S) ==
    IF S = {} THEN <<>>
    ELSE LET k == CHOOSE k \in S : \A m \in S : k <= m
         IN  <<q[k]>> \o Pick(q, S \ {k})

\* Any list of candidates may come back from a multisearch.
CandidateLists == {Pick(Accounts, S) : S \in SUBSET (1..Len(Accounts))}

(***************************************************************************)
(* The persistent store behind opgg.cacher.Cacher: three namespaces.       *)
(***************************************************************************)

VARIABLES
    summoner_ids,        \* store: cached name -> summoner id
    seasons,             \* store: the season catalog (<<>> when none)
    champions,           \* store: the champion catalog (<<>> when none)
    summoner_id,         \* instance: self._summoner_id
    region,              \* instance: self._region
    all_seasons,         \* instance: self._all_seasons (<<>> for None)
    all_champions,       \* instance: self._all_champions (<<>> for None)
    api_url,             \* instance: self._api_url
    games_api_url,       \* instance: self._games_api_url
    pc,                  \* where each process stands in search
    summoner_names,      \* search: the batch
    region_arg,          \* search: the region argument
    cached_summoner_ids, \* search: ids of the cache hits, in input order
    uncached_summoners,  \* search: the cache misses, in input order
    page_props,          \* search: what get_page_props returned
    cached_seasons,      \* search: the season catalog read from the cache
    cached_champions,    \* search: the champion catalog read from the cache
    idx,                 \* search: position of the loop over summoner_names
    cidx,                \* search: position of the loop over cached ids
    summoners,           \* search: the Summoner objects built so far
    outcome,             \* search: how the call ended
    result,              \* search: the value returned
    store0,              \* history: summoner_ids when the call started
    looked_up,           \* history: names passed to cacher.get_summoner_id
    fetched,             \* history: arguments of the get_page_props calls
    requests,            \* history: ids of the summary requests, in order
    written,             \* history: (name, id) pairs passed to insert_summoner
    inserted,            \* history: the catalog writes and what they did
    parsed,              \* history: the catalog fetches and what they gave
    util_call,           \* a call of a library function: name and arguments
    util_result          \* what that call returned

storeVars == <<summoner_ids, seasons, champions>>
urlVars == <<api_url, games_api_url>>
instVars == <<summoner_id, region, all_seasons, all_champions, urlVars>>
callVars == <<pc, summoner_names, region_arg, cached_summoner_ids,
              uncached_summoners, page_props, cached_seasons,
              cached_champions, idx, cidx, summoners, outcome, result>>
histVars == <<store0, looked_up, fetched, requests, written, inserted,
              parsed>>
utilVars == <<util_call, util_result>>
vars == <<storeVars, instVars, callVars, histVars, utilVars>>

\* A refresh that writes the default region into the URLs.
refresh_api_url_default(reg, sid) ==
    [api_url |-> <<"base", "summoners", "na", sid, "summary">>,
     games_api_url |-> <<"base", "games", "na", "summoners", sid>>]

\* refresh_api_url, and the same two f-strings in __init__: the URLs for
\* a region and a summoner id, as the list of their path segments.
refresh_api_url(reg, sid) ==
    [api_url |-> <<"base", "summoners", reg, sid, "summary">>,
     games_api_url |-> <<"base", "games", reg, "summoners", sid>>]

\* What the setters of summoner_id and region do after the assignment:
\* the URLs of the instance of p are refreshed.
Refresh(p, reg, sid) ==
    /\ api_url' = [api_url EXCEPT ![p] = refresh_api_url(reg, sid).api_url]
    /\ games_api_url' =
           [games_api_url EXCEPT
               ![p] = refresh_api_url(reg, sid).games_api_url]

\* 'self.region = region' that leaves the instance's region as it is.
region_kept(current, value) == current

\* The value the region setter stores.
region_setter(current, value) == value

\* setup that creates the tables anew, dropping what they held.
setup_recreate(store) == [ok |-> TRUE, store |-> <<<<>>, <<>>, <<>>>>]

\* Cacher.setup: creates the tables that do not exist; those that exist
\* are left as they are, and that is no error.
setup(store) == [ok |-> TRUE, store |-> store]

\* A lookup that ignores the tag: any entry of the same game name answers.
get_summoner_id_any_tag(store, name) ==
    LET same == {k \in DOMAIN store : Split(k, "#")[1] = Split(name, "#")[1]}
    IN  IF same = {} THEN None ELSE store[CHOOSE k \in same : TRUE]

\* Cacher.get_summoner_id: exact-match lookup, None on a miss.
get_summoner_id(store, name) ==
    IF name \in DOMAIN store THEN store[name] ELSE None

\* insert_summoner that keeps the entry a name already has.
insert_summoner_keep(store, name, id) ==
    IF name \in DOMAIN store THEN store
    ELSE [k \in DOMAIN store \cup {name} |-> IF k = name THEN id ELSE store[k]]

\* insert_summoner that drops the entry of a name recorded before instead
\* of replacing it.
insert_summoner_drop(store, name, id) ==
    IF name \in DOMAIN store
    THEN [k \in DOMAIN store \ {name} |-> store[k]]
    ELSE [k \in DOMAIN store \cup {name} |-> IF k = name THEN id ELSE store[k]]

\* Cacher.insert_summoner: upsert, one entry per name, last write wins.
insert_summoner(store, name, id) ==
    [k \in DOMAIN store \cup {name} |-> IF k = name THEN id ELSE store[k]]

\* Cacher.get_all_seasons / get_all_champs: the stored catalog.
get_all_cached(catalog) == catalog

\* insert_all that writes nothing.
insert_all_never(catalog, items) == catalog

\* insert_all that adds the rows to those the table holds.
insert_all_append(catalog, items) == catalog \o items

\* insert_all that replaces the catalog by an empty list as well.
insert_all_even_empty(catalog, items) == items

\* Cacher.insert_all_seasons / insert_all_champs: wholesale replace; an
\* empty list is a no-op.
insert_all(catalog, items) == IF items = <<>> THEN catalog ELSE items

(***************************************************************************)
(* The remote site.                                                        *)
(***************************************************************************)

RawSeasonLists == {<<>>, <<"se1", None, "se2">>}
RawChampionLists == {<<>>, <<"c1", "c2">>}

NoProps == [kind |-> "none", summoners |-> <<>>]

\* get_page_props: the request raises, or the page's JSON does not decode
\* and {} is returned, or the page props are returned, with one of the
\* given candidate lists.  The catalogs the page props carry (seasonsById,
\* championsById) are drawn where the code reads them.
PagePropsWith(lists) ==
    {[NoProps EXCEPT !.kind = "raise"], [NoProps EXCEPT !.kind = "empty"]}
    \cup {[kind |-> "props", summoners |-> c] : c \in lists}

PagePropsOutcomes == PagePropsWith(CandidateLists)

\* 'if not page_props': an empty dict is falsy.
Falsy(props) == props.kind # "props"

\* get_all_seasons, after its cache check: a SeasonInfo per non-null entry
\* of seasonsById.
ParseSeasons(seasonsById) == SelectSeq(seasonsById, LAMBDA s : s # None)

\* get_all_champions: a Champion per entry of the raw data.
ParseChampions(raw) == [k \in 1..Len(raw) |-> raw[k]]

\* GET /meta/champions: raises, or does not decode ([]), or the data.
ApiChampionOutcomes ==
    {[kind |-> "raise", data |-> <<>>]}
    \cup {[kind |-> "ok", data |-> ch] : ch \in RawChampionLists}

\* The summary API for the instance's current summoner id: an error (or
\* no data), or the Summoner of the account with that id.
SummaryOutcomes(sid) ==
    {[kind |-> "raise", name |-> <<>>, summoner_id |-> None]}
    \cup (IF sid \in SummonerIds
          THEN {[kind |-> "ok", name |-> Accounts[AccountOf(sid)].name,
                 summoner_id |-> sid]}
          ELSE {})

(***************************************************************************)
(* OPGG.search, step by step.  A step ends where the code waits for the    *)
(* store or for the remote site.                                           *)
(***************************************************************************)

\* The partition loop without its 'else': a cache hit is queried as well.
RECURSIVE PartitionFromNoElse(_, _, _, _)
PartitionFromNoElse(names, store, k, acc) ==
    IF k > Len(names) THEN acc
    ELSE IF ~HasSep(names[k], "#") THEN [acc EXCEPT !.malformed = TRUE]
    ELSE LET cached_id == get_summoner_id(store, names[k])
             seen == [acc EXCEPT !.looked = Append(@, names[k]),
                                 !.uncached = Append(@, names[k])]
         IN  IF cached_id # None
             THEN PartitionFromNoElse(names, store, k + 1,
                                      [seen EXCEPT
                                          !.cached = Append(@, cached_id)])
             ELSE PartitionFromNoElse(names, store, k + 1, seen)

\* The loop that validates the names and splits them into cache hits and
\* misses.  A name without "#" raises where the loop stands.
RECURSIVE PartitionFrom(_, _, _, _)
PartitionFrom(names, store, k, acc) ==
    IF k > Len(names) THEN acc
    ELSE IF ~HasSep(names[k], "#") THEN [acc EXCEPT !.malformed = TRUE]
    ELSE LET cached_id == get_summoner_id(store, names[k])
             seen == [acc EXCEPT !.looked = Append(@, names[k])]
         IN  IF cached_id # None
             THEN PartitionFrom(names, store, k + 1,
                                [seen EXCEPT !.cached = Append(@, cached_id)])
             ELSE PartitionFrom(names, store, k + 1,
                                [seen EXCEPT !.uncached = Append(@, names[k])])

\* The partition loop run over the names from the last to the first.
PartitionBackwards(names, store) ==
    PartitionFrom([k \in 1..Len(names) |-> names[Len(names) + 1 - k]],
                  store, 1,
                  [cached |-> <<>>, uncached |-> <<>>, looked |-> <<>>,
                   malformed |-> FALSE])

Partition(names, store) ==
    PartitionFrom(names, store, 1,
                  [cached |-> <<>>, uncached |-> <<>>, looked |-> <<>>,
                   malformed |-> FALSE])

\* The branch of the result loop that picks the summoner id for one name.
\* current is self.summoner_id before the branch; it is kept when no
\* branch assigns.
Disambiguate(name, cands, current) ==
    IF Len(cands) > 1 /\ HasSep(name, "#")
    THEN LET parts == Split(name, "#")
         IN  IF Len(parts) # 2
             THEN [kind |-> "value_error", id |-> current]
             ELSE LET hits == {k \in 1..Len(cands) :
                                 /\ Strip(parts[1]) = cands[k].game_name
                                 /\ Strip(parts[2]) = cands[k].tagline}
                  IN  IF hits = {}
                      THEN [kind |-> "ok", id |-> current]
                      ELSE [kind |-> "ok",
                            id |-> cands[CHOOSE k \in hits :
                                           \A m \in hits : k <= m].summoner_id]
    ELSE IF Len(cands) > 1
    THEN [kind |-> "ambiguous", id |-> current]
    ELSE IF Len(cands) = 1
    THEN [kind |-> "ok", id |-> cands[1].summoner_id]
    ELSE [kind |-> "ok", id |-> current]

\* 'return summoners if len(summoners) > 1 else summoners[0]'
ReturnValue(built) ==
    IF Len(built) > 1 THEN [list |-> TRUE, items |-> built]
    ELSE [list |-> FALSE, items |-> <<built[1]>>]

\* The call of process p ends (returns or raises) with the given outcome.
End(p, how) ==
    /\ pc' = [pc EXCEPT ![p] = "done"]
    /\ outcome' = [outcome EXCEPT ![p] = how]

\* search is called with a batch of the given set: the names are validated
\* and looked up in the cache.
SearchCall(p, batches, regions) ==
    /\ pc[p] = "idle"
    /\ \E names \in batches, reg \in regions :
         LET part == Partition(names, summoner_ids)
         IN  /\ summoner_names' = [summoner_names EXCEPT ![p] = names]
             /\ region_arg' = [region_arg EXCEPT ![p] = reg]
             /\ store0' = [store0 EXCEPT ![p] = summoner_ids]
             /\ looked_up' = [looked_up EXCEPT ![p] = part.looked]
             /\ IF part.malformed
                THEN /\ End(p, "malformed")
                     /\ UNCHANGED <<cached_summoner_ids, uncached_summoners>>
                ELSE /\ pc' = [pc EXCEPT ![p] = "fetch"]
                     /\ cached_summoner_ids' =
                            [cached_summoner_ids EXCEPT ![p] = part.cached]
                     /\ uncached_summoners' =
                            [uncached_summoners EXCEPT ![p] = part.uncached]
                     /\ UNCHANGED outcome
    /\ UNCHANGED <<utilVars,
                   storeVars, instVars, page_props, cached_seasons,
                   cached_champions, idx, cidx, summoners, result, fetched,
                   requests, written, inserted, parsed>>

SearchStart(p) == SearchCall(p, Batches, Regions)

\* page_props = get_page_props(uncached_summoners, region), the remote
\* site answering with one of the given outcomes.
SearchPageProps(p, outcomes) ==
    /\ pc[p] = "fetch"
    /\ fetched' = [fetched EXCEPT ![p] = Append(@, uncached_summoners[p])]
    /\ \E props \in outcomes :
         IF props.kind = "raise"
         THEN /\ End(p, "fetch_error")
              /\ UNCHANGED page_props
         ELSE /\ pc' = [pc EXCEPT ![p] = "catalogs"]
              /\ page_props' = [page_props EXCEPT ![p] = props]
              /\ UNCHANGED outcome
    /\ UNCHANGED <<utilVars,
                   storeVars, instVars, summoner_names, region_arg,
                   cached_summoner_ids, uncached_summoners, cached_seasons,
                   cached_champions, idx, cidx, summoners, result, store0,
                   looked_up, requests, written, inserted, parsed>>

SearchFetch(p) == SearchPageProps(p, PagePropsOutcomes)

\* 'if cached_seasons:' with no cached catalog ever taken for one.
NeverTruthy(catalog) == FALSE

\* 'if cached_seasons:' / 'if cached_champions:': a non-empty list is truthy.
Truthy(catalog) == catalog # <<>>

\* A catalog fetch as the history keeps it: the table and the catalog the
\* fetch gave (<<>> when it raised).
CatalogFetch(table, data) == [table |-> table, data |-> data]

\* cached_seasons, cached_champions = the catalogs in the cache
SearchCatalogs(p) ==
    /\ pc[p] = "catalogs"
    /\ cached_seasons' = [cached_seasons EXCEPT ![p] = get_all_cached(seasons)]
    /\ cached_champions' =
           [cached_champions EXCEPT ![p] = get_all_cached(champions)]
    /\ pc' = [pc EXCEPT ![p] = "seasons"]
    /\ UNCHANGED <<utilVars,
                   storeVars, instVars, summoner_names, region_arg,
                   cached_summoner_ids, uncached_summoners, page_props, idx,
                   cidx, summoners, outcome, result, histVars>>

\* utils.get_all_seasons(page_props): the cache again, then the page props
\* (seasonsById is their season catalog; {} has none).
get_all_seasons(store_seasons, props, seasonsById) ==
    IF get_all_cached(store_seasons) # <<>>
    THEN [kind |-> "ok", data |-> get_all_cached(store_seasons)]
    ELSE IF props.kind # "props"
    THEN [kind |-> "key_error", data |-> <<>>]
    ELSE [kind |-> "ok", data |-> ParseSeasons(seasonsById)]

\* Whether get_all_seasons reads seasonsById from the page props.
ReadsSeasonsById(store_seasons, props) ==
    get_all_cached(store_seasons) = <<>> /\ props.kind = "props"

\* A catalog write as the history keeps it: the table, the list written
\* and the catalog the store held.
CatalogWrite(table, items, before) ==
    [table |-> table, items |-> items, before |-> before]

\* The seasons branch: use the cached catalog, or fetch one.
SearchSeasons(p) ==
    /\ pc[p] = "seasons"
    /\ IF Truthy(cached_seasons[p])
       THEN /\ all_seasons' = [all_seasons EXCEPT ![p] = cached_seasons[p]]
            /\ pc' = [pc EXCEPT ![p] = "champions"]
            /\ UNCHANGED <<outcome, parsed>>
       ELSE \E raw \in IF ReadsSeasonsById(seasons, page_props[p])
                       THEN RawSeasonLists ELSE {<<>>} :
              LET got == get_all_seasons(seasons, page_props[p], raw)
              IN  /\ parsed' = [parsed EXCEPT ![p] =
                                    Append(@, CatalogFetch("seasons",
                                                           got.data))]
                  /\ IF got.kind = "key_error"
                     THEN /\ End(p, "key_error")
                          /\ UNCHANGED all_seasons
                     ELSE /\ all_seasons' =
                                 [all_seasons EXCEPT ![p] = got.data]
                          /\ pc' = [pc EXCEPT ![p] = "insert_seasons"]
                          /\ UNCHANGED outcome
    /\ UNCHANGED <<utilVars,
                   storeVars, summoner_id, region, all_champions,
                   urlVars,
                   summoner_names, region_arg, cached_summoner_ids,
                   uncached_summoners, page_props, cached_seasons,
                   cached_champions, idx, cidx, summoners, result, store0,
                   looked_up, fetched, requests, written, inserted>>

\* self.cacher.insert_all_seasons(self.all_seasons)
SearchInsertSeasons(p) ==
    /\ pc[p] = "insert_seasons"
    /\ seasons' = insert_all(seasons, all_seasons[p])
    /\ inserted' = [inserted EXCEPT ![p] =
                       Append(@, CatalogWrite("seasons", all_seasons[p],
                                              seasons))]
    /\ pc' = [pc EXCEPT ![p] = "champions"]
    /\ UNCHANGED <<utilVars,
                   summoner_ids, champions, instVars, summoner_names,
                   region_arg, cached_summoner_ids, uncached_summoners,
                   page_props, cached_seasons, cached_champions, idx, cidx,
                   summoners, outcome, result, store0, looked_up, fetched,
                   requests, written, parsed>>

\* utils.get_all_champions(page_props): the page props when there are any
\* (remote.data is their championsById), else the cache, else the champions
\* API (remote is its response).
get_all_champions(store_champions, props, remote) ==
    IF Falsy(props)
    THEN IF get_all_cached(store_champions) # <<>>
         THEN [kind |-> "ok", data |-> get_all_cached(store_champions)]
         ELSE IF remote.kind = "raise"
         THEN [kind |-> "raise", data |-> <<>>]
         ELSE [kind |-> "ok", data |-> ParseChampions(remote.data)]
    ELSE [kind |-> "ok", data |-> ParseChampions(remote.data)]

\* What get_all_champions may read from the remote site: championsById of
\* the page props, or the response of the champions API, or nothing (the
\* cache answers).
ChampionSources(store_champions, props) ==
    IF ~Falsy(props)
    THEN {[kind |-> "ok", data |-> ch] : ch \in RawChampionLists}
    ELSE IF get_all_cached(store_champions) = <<>>
    THEN ApiChampionOutcomes
    ELSE {[kind |-> "unused", data |-> <<>>]}

\* The champions branch: use the cached catalog, or fetch one.  With the
\* cached catalog 'self.region = region' follows at once.
SearchChampions(p) ==
    /\ pc[p] = "champions"
    /\ IF Truthy(cached_champions[p])
       THEN /\ all_champions' =
                   [all_champions EXCEPT ![p] = cached_champions[p]]
            /\ region' = [region EXCEPT ![p] =
                              region_setter(@, region_arg[p])]
            /\ Refresh(p, region_setter(region[p], region_arg[p]),
                       summoner_id[p])
            /\ pc' = [pc EXCEPT ![p] = "results"]
            /\ UNCHANGED <<outcome, parsed>>
       ELSE \E remote \in ChampionSources(champions, page_props[p]) :
              LET got == get_all_champions(champions, page_props[p], remote)
              IN  /\ parsed' = [parsed EXCEPT ![p] =
                                    Append(@, CatalogFetch("champions",
                                                           got.data))]
                  /\ IF got.kind = "raise"
                     THEN /\ End(p, "fetch_error")
                          /\ UNCHANGED <<all_champions, region, urlVars>>
                     ELSE /\ all_champions' =
                                 [all_champions EXCEPT ![p] = got.data]
                          /\ pc' = [pc EXCEPT ![p] = "insert_champions"]
                          /\ UNCHANGED <<outcome, region, urlVars>>
    /\ UNCHANGED <<utilVars,
                   storeVars, summoner_id, all_seasons, summoner_names,
                   region_arg, cached_summoner_ids, uncached_summoners,
                   page_props, cached_seasons, cached_champions, idx, cidx,
                   summoners, result, store0, looked_up, fetched, requests,
                   written, inserted>>

\* self.cacher.insert_all_champs(self.all_champions), then
\* 'self.region = region'.
SearchInsertChampions(p) ==
    /\ pc[p] = "insert_champions"
    /\ champions' = insert_all(champions, all_champions[p])
    /\ inserted' = [inserted EXCEPT ![p] =
                       Append(@, CatalogWrite("champions", all_champions[p],
                                              champions))]
    /\ region' = [region EXCEPT ![p] = region_setter(@, region_arg[p])]
    /\ Refresh(p, region_setter(region[p], region_arg[p]), summoner_id[p])
    /\ pc' = [pc EXCEPT ![p] = "results"]
    /\ UNCHANGED <<utilVars,
                   summoner_ids, seasons, summoner_id, all_seasons,
                   all_champions, summoner_names, region_arg,
                   cached_summoner_ids, uncached_summoners, page_props,
                   cached_seasons, cached_champions, idx, cidx, summoners,
                   outcome, result, store0, looked_up, fetched, requests,
                   written, parsed>>

\* One turn of 'for summoner_name in summoner_names': pick the id, request
\* the summary, append the Summoner and cache its name and id.
SearchResult(p) ==
    /\ pc[p] = "results"
    /\ idx[p] <= Len(summoner_names[p])
    /\ LET pick == Disambiguate(summoner_names[p][idx[p]],
                                page_props[p].summoners, summoner_id[p])
       IN  IF pick.kind # "ok"
           THEN /\ End(p, pick.kind)
                /\ UNCHANGED <<summoner_ids, summoner_id, idx, summoners,
                               requests, written, urlVars>>
           ELSE /\ summoner_id' = [summoner_id EXCEPT ![p] = pick.id]
                /\ Refresh(p, region[p], pick.id)
                /\ requests' = [requests EXCEPT ![p] = Append(@, pick.id)]
                /\ \E res \in SummaryOutcomes(pick.id) :
                     IF res.kind = "raise"
                     THEN /\ End(p, "summary_error")
                          /\ UNCHANGED <<summoner_ids, idx, summoners,
                                         written>>
                     ELSE /\ summoners' =
                                 [summoners EXCEPT ![p] =
                                     Append(@, [name |-> res.name,
                                                summoner_id |->
                                                    res.summoner_id])]
                          /\ summoner_ids' =
                                 insert_summoner(summoner_ids, res.name,
                                                 res.summoner_id)
                          /\ written' =
                                 [written EXCEPT ![p] =
                                     Append(@, <<res.name, res.summoner_id>>)]
                          /\ idx' = [idx EXCEPT ![p] = @ + 1]
                          /\ UNCHANGED <<pc, outcome>>
    /\ UNCHANGED <<utilVars,
                   seasons, champions, region, all_seasons, all_champions,
                   summoner_names, region_arg, cached_summoner_ids,
                   uncached_summoners, page_props, cached_seasons,
                   cached_champions, cidx, result, store0, looked_up,
                   fetched, inserted, parsed>>

\* One turn of 'for _cached_summoner_id in cached_summoner_ids'.
SearchCached(p) ==
    /\ pc[p] = "results"
    /\ idx[p] > Len(summoner_names[p])
    /\ cidx[p] <= Len(cached_summoner_ids[p])
    /\ LET id == cached_summoner_ids[p][cidx[p]]
       IN  /\ summoner_id' = [summoner_id EXCEPT ![p] = id]
           /\ Refresh(p, region[p], id)
           /\ requests' = [requests EXCEPT ![p] = Append(@, id)]
           /\ \E res \in SummaryOutcomes(id) :
                IF res.kind = "raise"
                THEN /\ End(p, "summary_error")
                     /\ UNCHANGED <<cidx, summoners>>
                ELSE /\ summoners' =
                            [summoners EXCEPT ![p] =
                                Append(@, [name |-> res.name,
                                           summoner_id |-> res.summoner_id])]
                     /\ cidx' = [cidx EXCEPT ![p] = @ + 1]
                     /\ UNCHANGED <<pc, outcome>>
    /\ UNCHANGED <<utilVars,
                   storeVars, region, all_seasons, all_champions,
                   summoner_names, region_arg, cached_summoner_ids,
                   uncached_summoners, page_props, cached_seasons,
                   cached_champions, idx, result, store0, looked_up,
                   fetched, written, inserted, parsed>>

\* The end of search: no Summoner built raises, else the result is returned.
SearchReturn(p) ==
    /\ pc[p] = "results"
    /\ idx[p] > Len(summoner_names[p])
    /\ cidx[p] > Len(cached_summoner_ids[p])
    /\ End(p, IF Len(summoners[p]) = 0 THEN "no_results" ELSE "returned")
    /\ result' = [result EXCEPT ![p] = IF Len(summoners[p]) = 0 THEN @
                                       ELSE ReturnValue(summoners[p])]
    /\ UNCHANGED <<utilVars,
                   storeVars, instVars, summoner_names, region_arg,
                   cached_summoner_ids, uncached_summoners, page_props,
                   cached_seasons, cached_champions, idx, cidx, summoners,
                   histVars>>

(***************************************************************************)
(* The specification.                                                      *)
(***************************************************************************)

\* What earlier runs may have left in the summoner cache: the entries
\* search writes, a Summoner's name with its id.
InitStores ==
    {[n \in {Accounts[k].name : k \in S} |->
         Accounts[CHOOSE k \in S : Accounts[k].name = n].summoner_id] :
       S \in SUBSET (1..Len(Accounts))}

\* OPGG(summoner_id): no id, or the id of an account.
InitSummonerIds == {None, "s3"}

\* No library function has been called.
NoCall == [fn |-> "none"]
NoResult == [kind |-> "none"]

\* No library function is called.
NoUtilCall == util_call = NoCall /\ util_result = NoResult

\* No call is running and no catalog is loaded.
Constructed ==
    /\ region = [p \in Procs |-> "na"]
    /\ all_seasons = [p \in Procs |-> <<>>]
    /\ all_champions = [p \in Procs |-> <<>>]
    /\ pc = [p \in Procs |-> "idle"]
    /\ summoner_names = [p \in Procs |-> <<>>]
    /\ region_arg = [p \in Procs |-> "na"]
    /\ cached_summoner_ids = [p \in Procs |-> <<>>]
    /\ uncached_summoners = [p \in Procs |-> <<>>]
    /\ page_props = [p \in Procs |-> NoProps]
    /\ cached_seasons = [p \in Procs |-> <<>>]
    /\ cached_champions = [p \in Procs |-> <<>>]
    /\ idx = [p \in Procs |-> 1]
    /\ cidx = [p \in Procs |-> 1]
    /\ summoners = [p \in Procs |-> <<>>]
    /\ outcome = [p \in Procs |-> "none"]
    /\ result = [p \in Procs |-> [list |-> FALSE, items |-> <<>>]]
    /\ store0 = [p \in Procs |-> <<>>]
    /\ looked_up = [p \in Procs |-> <<>>]
    /\ fetched = [p \in Procs |-> <<>>]
    /\ requests = [p \in Procs |-> <<>>]
    /\ written = [p \in Procs |-> <<>>]
    /\ inserted = [p \in Procs |-> <<>>]
    /\ parsed = [p \in Procs |-> <<>>]
    /\ api_url =
           [p \in Procs |->
               refresh_api_url(region[p], summoner_id[p]).api_url]
    /\ games_api_url =
           [p \in Procs |->
               refresh_api_url(region[p], summoner_id[p]).games_api_url]

\* One process: the store as earlier runs left it, and OPGG(summoner_id)
\* freshly constructed in process p1.
Init ==
    /\ summoner_ids \in InitStores
    /\ seasons \in {<<>>, <<"se1", "se2">>}
    /\ champions \in {<<>>, <<"c1", "c2">>}
    /\ summoner_id \in {[p \in Procs |-> IF p = "p1" THEN id ELSE None] :
                          id \in InitSummonerIds}
    /\ Constructed
    /\ NoUtilCall

Step(p) ==
    \/ SearchStart(p)
    \/ SearchFetch(p)
    \/ SearchCatalogs(p)
    \/ SearchSeasons(p)
    \/ SearchInsertSeasons(p)
    \/ SearchChampions(p)
    \/ SearchInsertChampions(p)
    \/ SearchResult(p)
    \/ SearchCached(p)
    \/ SearchReturn(p)

Next == Step("p1")

Spec == Init /\ [][Next]_vars

(***************************************************************************)
(* Two processes on one store, each running one search.                    *)
(***************************************************************************)

\* Longest batch of a concurrent search.
MaxConcBatch == 1

\* The concurrent searches are for one name, cached or not, and the remote
\* site knows one account by it.
ConcBatches == SeqsUpTo({NameB1}, MaxConcBatch)

ConcSearchStart(p) == SearchCall(p, ConcBatches, {"na"})

ConcSearchFetch(p) ==
    SearchPageProps(p, PagePropsWith({<<>>, <<Accounts[2]>>}))

ConcInit ==
    /\ summoner_ids \in {<<>>, [n \in {NameB1} |-> "s2"]}
    /\ seasons \in {<<>>, <<"se1", "se2">>}
    /\ champions \in {<<>>, <<"c1", "c2">>}
    /\ summoner_id = [p \in Procs |-> None]
    /\ Constructed
    /\ NoUtilCall

ConcNext ==
    \E p \in Procs :
        \/ ConcSearchStart(p)
        \/ ConcSearchFetch(p)
        \/ SearchCatalogs(p)
        \/ SearchSeasons(p)
        \/ SearchInsertSeasons(p)
        \/ SearchChampions(p)
        \/ SearchInsertChampions(p)
        \/ SearchResult(p)
        \/ SearchCached(p)
        \/ SearchReturn(p)

ConcSpec == ConcInit /\ [][ConcNext]_vars

(***************************************************************************)
(* Two processes on one store, each constructing OPGG instances and        *)
(* running one search per instance.                                        *)
(***************************************************************************)

\* OPGG(summoner_id, region) in process p, which has no search running:
\* the fields are set, the catalogs are None, and the cache is set up.
\* The new instance has made no call.
OPGG_init(p, ids, regions) ==
    /\ pc[p] \in {"idle", "done"}
    /\ \E id \in ids, reg \in regions :
         /\ summoner_id' = [summoner_id EXCEPT ![p] = id]
         /\ region' = [region EXCEPT ![p] = reg]
         /\ Refresh(p, reg, id)
    /\ all_seasons' = [all_seasons EXCEPT ![p] = <<>>]
    /\ all_champions' = [all_champions EXCEPT ![p] = <<>>]
    /\ LET done == setup(<<summoner_ids, seasons, champions>>)
       IN  /\ summoner_ids' = done.store[1]
           /\ seasons' = done.store[2]
           /\ champions' = done.store[3]
           /\ pc' = [pc EXCEPT ![p] = IF done.ok THEN "idle" ELSE "done"]
           /\ outcome' = [outcome EXCEPT ![p] =
                             IF done.ok THEN "none" ELSE "setup_error"]
    /\ summoner_names' = [summoner_names EXCEPT ![p] = <<>>]
    /\ region_arg' = [region_arg EXCEPT ![p] = "na"]
    /\ cached_summoner_ids' = [cached_summoner_ids EXCEPT ![p] = <<>>]
    /\ uncached_summoners' = [uncached_summoners EXCEPT ![p] = <<>>]
    /\ page_props' = [page_props EXCEPT ![p] = NoProps]
    /\ cached_seasons' = [cached_seasons EXCEPT ![p] = <<>>]
    /\ cached_champions' = [cached_champions EXCEPT ![p] = <<>>]
    /\ idx' = [idx EXCEPT ![p] = 1]
    /\ cidx' = [cidx EXCEPT ![p] = 1]
    /\ summoners' = [summoners EXCEPT ![p] = <<>>]
    /\ result' = [result EXCEPT ![p] = [list |-> FALSE, items |-> <<>>]]
    /\ store0' = [store0 EXCEPT ![p] = <<>>]
    /\ looked_up' = [looked_up EXCEPT ![p] = <<>>]
    /\ fetched' = [fetched EXCEPT ![p] = <<>>]
    /\ requests' = [requests EXCEPT ![p] = <<>>]
    /\ written' = [written EXCEPT ![p] = <<>>]
    /\ inserted' = [inserted EXCEPT ![p] = <<>>]
    /\ parsed' = [parsed EXCEPT ![p] = <<>>]
    /\ UNCHANGED utilVars

SetupConstruct(p) == OPGG_init(p, {None}, {"na"})

SetupNext ==
    \/ ConcNext
    \/ \E p \in Procs : SetupConstruct(p)

SetupSpec == ConcInit /\ [][SetupNext]_vars

(***************************************************************************)
(* The summoner cache on its own: one client recording (name, id) pairs,   *)
(* as the result loop of search does, any name with any id.                *)
(***************************************************************************)

\* Most records one client makes.
MaxWrites == 3

\* self.cacher.insert_summoner(summoner.name, summoner.summoner_id)
CacherInsertSummoner(p) ==
    /\ Len(written[p]) < MaxWrites
    /\ \E name \in Names, id \in SummonerIds :
         /\ summoner_ids' = insert_summoner(summoner_ids, name, id)
         /\ written' = [written EXCEPT ![p] = Append(@, <<name, id>>)]
    /\ UNCHANGED <<utilVars,
                   seasons, champions, instVars, callVars, store0,
                   looked_up, fetched, requests, inserted, parsed>>

\* An empty store.
StoreInit ==
    /\ summoner_ids = <<>>
    /\ seasons = <<>>
    /\ champions = <<>>
    /\ summoner_id = [p \in Procs |-> None]
    /\ Constructed
    /\ NoUtilCall

StoreNext == CacherInsertSummoner("p1")

StoreSpec == StoreInit /\ [][StoreNext]_vars

(***************************************************************************)
(* The catalog fetchers of opgg.utils called on their own, with page_props *)
(* None, {} or the page props of an earlier fetch, on any cache.           *)
(***************************************************************************)

\* The catalogs the cache may hold: none, an older one, the current one.
StoredSeasonCatalogs == {<<>>, <<"se0">>, <<"se1", "se2">>}
StoredChampionCatalogs == {<<>>, <<"c0">>, <<"c1", "c2">>}

\* The page_props argument: None, {} or page props.
PagePropsArgs ==
    {NoProps, [NoProps EXCEPT !.kind = "empty"],
     [NoProps EXCEPT !.kind = "props"]}

CatalogCalls ==
    {[fn |-> f, page_props |-> props] :
        f \in {"get_all_seasons", "get_all_champions"},
        props \in PagePropsArgs}

\* What a fetcher returned: how it ended, the catalog, and where the
\* catalog came from (the cache, the page props, the champions API).
Returned(kind, data, from) == [kind |-> kind, data |-> data, from |-> from]

\* get_all_seasons(page_props) returns.  Without a cached catalog and with
\* page_props None it fetches page props of its own.
UtilGetAllSeasons ==
    /\ util_call.fn = "get_all_seasons"
    /\ util_result = NoResult
    /\ IF get_all_cached(seasons) # <<>>
       THEN util_result' =
                Returned("ok",
                         get_all_seasons(seasons, util_call.page_props,
                                         <<>>).data,
                         "cache")
       ELSE \E own \in IF util_call.page_props.kind = "none"
                       THEN PagePropsWith({<<>>})
                       ELSE {util_call.page_props} :
              IF own.kind = "raise"
              THEN util_result' = Returned("raise", <<>>, "page_props")
              ELSE \E raw \in IF ReadsSeasonsById(seasons, own)
                              THEN RawSeasonLists ELSE {<<>>} :
                     LET got == get_all_seasons(seasons, own, raw)
                     IN  util_result' =
                             Returned(got.kind, got.data, "page_props")
    /\ UNCHANGED <<storeVars, instVars, callVars, histVars, util_call>>

\* get_all_champions(page_props) returns.
UtilGetAllChampions ==
    /\ util_call.fn = "get_all_champions"
    /\ util_result = NoResult
    /\ \E remote \in ChampionSources(champions, util_call.page_props) :
         LET got == get_all_champions(champions, util_call.page_props,
                                      remote)
         IN  util_result' =
                 Returned(got.kind, got.data,
                          IF ~Falsy(util_call.page_props) THEN "page_props"
                          ELSE IF remote.kind = "unused" THEN "cache"
                          ELSE "api")
    /\ UNCHANGED <<storeVars, instVars, callVars, histVars, util_call>>

\* Any cache, and a call of one of the two fetchers.
CatalogInit ==
    /\ summoner_ids = <<>>
    /\ seasons \in StoredSeasonCatalogs
    /\ champions \in StoredChampionCatalogs
    /\ summoner_id = [p \in Procs |-> None]
    /\ Constructed
    /\ util_call \in CatalogCalls
    /\ util_result = NoResult

CatalogNext == UtilGetAllSeasons \/ UtilGetAllChampions

CatalogSpec == CatalogInit /\ [][CatalogNext]_vars

(***************************************************************************)
(* The URL properties of an instance: constructions and assignments to     *)
(* summoner_id and region, in any order, on two instances.                 *)
(***************************************************************************)

\* The values a caller assigns: any id or None, any region string.
UrlSummonerIds == SummonerIds \cup {None}

UrlRegions == Regions \cup {"euw"}

\* OPGG(summoner_id, region)
UrlConstruct(p) == OPGG_init(p, UrlSummonerIds, UrlRegions)

\* opgg.summoner_id = value
SetSummonerId(p) ==
    /\ pc[p] = "idle"
    /\ \E value \in UrlSummonerIds :
         /\ summoner_id' = [summoner_id EXCEPT ![p] = value]
         /\ Refresh(p, region[p], value)
    /\ UNCHANGED <<utilVars, storeVars, region, all_seasons, all_champions,
                   callVars, histVars>>

\* opgg.region = value
SetRegion(p) ==
    /\ pc[p] = "idle"
    /\ \E value \in UrlRegions :
         /\ region' = [region EXCEPT ![p] = region_setter(@, value)]
         /\ Refresh(p, region_setter(region[p], value), summoner_id[p])
    /\ UNCHANGED <<utilVars, storeVars, summoner_id, all_seasons,
                   all_champions, callVars, histVars>>

UrlInit ==
    /\ summoner_ids = <<>>
    /\ seasons = <<>>
    /\ champions = <<>>
    /\ summoner_id = [p \in Procs |-> None]
    /\ Constructed
    /\ NoUtilCall

UrlNext ==
    \E p \in Procs :
        \/ UrlConstruct(p)
        \/ SetSummonerId(p)
        \/ SetRegion(p)

UrlSpec == UrlInit /\ [][UrlNext]_vars

(***************************************************************************)
(* One search by an instance whose region was assigned, any number of      *)
(* times, before the call: on any summoner cache, with the champion        *)
(* catalog cached or not and no season catalog cached.                     *)
(***************************************************************************)

RegionInit ==
    /\ summoner_ids \in InitStores
    /\ seasons = <<>>
    /\ champions \in {<<>>, <<"c1", "c2">>}
    /\ summoner_id = [p \in Procs |-> None]
    /\ Constructed
    /\ NoUtilCall

RegionNext ==
    \/ Next
    \/ SetRegion("p1")

RegionSpec == RegionInit /\ [][RegionNext]_vars

(***************************************************************************)
(* get_summoner building the Summoner from the payload of a successful     *)
(* summary request: the sections in the order of the code, under its one   *)
(* try block.  A season, a league, a champion or a game is its id.         *)
(***************************************************************************)

\* Most entries of one section of a payload.
MaxSection == 2

\* content["summoner"] of a payload: the season_ids of previous_seasons,
\* league_stats (has_league_stats FALSE when the key is missing, .get then
\* giving None), the ids of most_champions.champion_stats; Empty is the
\* payload with no data.
Empty == [empty |-> TRUE]

Payloads ==
    {Empty} \cup
    [empty : {FALSE},
     previous_seasons : SeqsUpTo({"se1", "se2", "se9"}, MaxSection),
     has_league_stats : BOOLEAN,
     league_stats : SeqsUpTo({"l1"}, MaxSection),
     champion_stats : {<<>>, <<"c1">>, <<"c9", "c2">>}]

\* What the games request of get_recent_games gives: an HTTP error, which
\* raises, or the list of games.
GamesReplies ==
    {[ok |-> FALSE, data |-> <<>>]} \cup
    {[ok |-> TRUE, data |-> d] : d \in {<<>>, <<"g1", "g2">>}}

\* for _season in self.all_seasons: if _season.id == season_id: ... break
SeasonInfoOf(catalog, season_id) ==
    IF \E k \in 1..Len(catalog) : catalog[k] = season_id
    THEN season_id ELSE None

\* for _champion in self.all_champions: if _champion.id == id: ... break
ChampionOf(catalog, id) ==
    IF \E k \in 1..Len(catalog) : catalog[k] = id THEN id ELSE None

\* The previous_seasons loop from entry k on: Season(season_id=
\* tmp_season_info.id, ...) raises when no catalog entry was found.
RECURSIVE BuildSeasons(_, _, _, _)
BuildSeasons(catalog, payload_seasons, k, acc) ==
    IF k > Len(payload_seasons)
    THEN [raised |-> FALSE, previous_seasons |-> acc]
    ELSE IF SeasonInfoOf(catalog, payload_seasons[k]) = None
         THEN [raised |-> TRUE, previous_seasons |-> acc]
         ELSE BuildSeasons(catalog, payload_seasons, k + 1,
                           Append(acc, payload_seasons[k]))

\* The body of the try block and the except after it: the lists as they are
\* when the block is left, by its end or by the first exception.
get_summoner(content, catalog_seasons, catalog_champions, games) ==
    IF content.empty
    THEN [kind |-> "content"]
    ELSE LET built == BuildSeasons(catalog_seasons,
                                   content.previous_seasons, 1, <<>>)
             stats == [k \in 1..Len(content.champion_stats) |->
                          [id |-> content.champion_stats[k],
                           champion |->
                               ChampionOf(catalog_champions,
                                          content.champion_stats[k])]]
         IN  IF built.raised
             THEN [kind |-> "summoner",
                   previous_seasons |-> built.previous_seasons,
                   league_stats |-> <<>>,
                   most_champions |-> <<>>,
                   recent_game_stats |-> <<>>]
             ELSE IF ~content.has_league_stats
             THEN [kind |-> "summoner",
                   previous_seasons |-> built.previous_seasons,
                   league_stats |-> <<>>,
                   most_champions |-> <<>>,
                   recent_game_stats |-> <<>>]
             ELSE [kind |-> "summoner",
                   previous_seasons |-> built.previous_seasons,
                   league_stats |-> content.league_stats,
                   most_champions |-> stats,
                   recent_game_stats |->
                       IF games.ok THEN games.data ELSE <<>>]

\* The calls: any payload and games reply, on an instance holding either
\* catalog or none.
SummonerCalls ==
    [fn : {"get_summoner"},
     content : Payloads,
     all_seasons : {<<>>, <<"se1", "se2">>},
     all_champions : {<<>>, <<"c1", "c2">>},
     games : GamesReplies]

\* get_summoner() returns, the summary request having succeeded.
UtilGetSummoner ==
    /\ util_call.fn = "get_summoner"
    /\ util_result = NoResult
    /\ util_result' = get_summoner(util_call.content, util_call.all_seasons,
                                   util_call.all_champions, util_call.games)
    /\ UNCHANGED <<storeVars, instVars, callVars, histVars, util_call>>

SummonerInit ==
    /\ summoner_ids = <<>>
    /\ seasons = <<>>
    /\ champions = <<>>
    /\ summoner_id = [p \in Procs |-> None]
    /\ Constructed
    /\ util_call \in SummonerCalls
    /\ util_result = NoResult

SummonerNext == UtilGetSummoner

SummonerSpec == SummonerInit /\ [][SummonerNext]_vars

(***************************************************************************)
(* The first lines of search: a str argument is made the list of names.    *)
(***************************************************************************)

\* The names of a batch written by a caller: those of Names, a name with a
\* blank before it and the empty name.
WrittenNames == Names \cup {<<" ", "b", "#", "1">>, <<>>}

\* The batches with a string form: one name or more.
WrittenBatches == SeqsUpTo(WrittenNames, MaxBatch) \ {<<>>}

\* ",".join(names)
RECURSIVE Join(_, _)
Join(names, sep) ==
    IF names = <<>> THEN <<>>
    ELSE IF Len(names) = 1 THEN names[1]
    ELSE names[1] \o <<sep>> \o Join(Tail(names), sep)

\* The argument of search: a str or a list of str.
StrArg(chars) == [is_str |-> TRUE, str |-> chars, list |-> <<>>]

ListArg(names) == [is_str |-> FALSE, str |-> <<>>, list |-> names]

\* A str argument taken for one name, commas and all.
search_names_unsplit(arg) ==
    IF arg.is_str THEN <<arg.str>> ELSE arg.list

\* if isinstance(summoner_names, str): split at the commas, or the one
\* name in a list; a list is left as it is.
search_names(arg) ==
    IF arg.is_str
    THEN IF HasSep(arg.str, ",")
         THEN Split(arg.str, ",")
         ELSE <<arg.str>>
    ELSE arg.list

\* The calls compared: one batch, passed as a list and as a string.
InputCalls == [fn : {"search"}, names : WrittenBatches]

\* summoner_names as search holds it past its first lines, for the list
\* and for the string of the same names.
UtilSearchNames ==
    /\ util_call.fn = "search"
    /\ util_result = NoResult
    /\ util_result' =
           [kind |-> "names",
            of_list |-> search_names(ListArg(util_call.names)),
            of_str |-> search_names(StrArg(Join(util_call.names, ",")))]
    /\ UNCHANGED <<storeVars, instVars, callVars, histVars, util_call>>

InputInit ==
    /\ summoner_ids = <<>>
    /\ seasons = <<>>
    /\ champions = <<>>
    /\ summoner_id = [p \in Procs |-> None]
    /\ Constructed
    /\ util_call \in InputCalls
    /\ util_result = NoResult

InputNext == UtilSearchNames

InputSpec == InputInit /\ [][InputNext]_vars

(***************************************************************************)
(* get_champion_by and get_season_by of opgg.utils over the catalog that   *)
(* get_all_champions() / get_all_seasons() gives them.                     *)
(***************************************************************************)

\* Most values in a list of values.
MaxValues == 2

\* Champions of a catalog; two of them go by one name.
Champ1 == [id |-> "1", key |-> "k1", name |-> "n"]

Champ2 == [id |-> "2", key |-> "k2", name |-> "n"]

Champ3 == [id |-> "3", key |-> "k3", name |-> "m"]

ChampionCatalogs == {<<>>, <<Champ1, Champ2, Champ3>>, <<Champ3, Champ1>>}

SeasonCatalogs == {<<>>, <<[id |-> "1"], [id |-> "2"], [id |-> "3"]>>}

\* The values asked for, by field; the last of each is in no catalog.
ValuesOf(by) ==
    IF by = "id" THEN {"1", "2", "3", "9"}
    ELSE IF by = "key" THEN {"k1", "k2", "k3", "k9"}
    ELSE {"n", "m", "x"}

\* The value argument: one value or a list of values.
OneValue(v) == [is_list |-> FALSE, one |-> v, list |-> <<>>]

ListValue(vs) == [is_list |-> TRUE, one |-> None, list |-> vs]

ValueArgs(by) ==
    {OneValue(v) : v \in ValuesOf(by)} \cup
    {ListValue(vs) : vs \in SeqsUpTo(ValuesOf(by), MaxValues)}

\* for _id in value: if champ.id == _id: result_set.append(champ), from
\* value k on.
RECURSIVE AppendPerValue(_, _, _, _, _)
AppendPerValue(entry, by, values, k, result_set) ==
    IF k > Len(values) THEN result_set
    ELSE AppendPerValue(entry, by, values, k + 1,
                        IF entry[by] = values[k]
                        THEN Append(result_set, entry) ELSE result_set)

\* for champ in all_champs: ..., from entry k on, for a list of values and
\* for one value.
RECURSIVE CollectBy(_, _, _, _, _)
CollectBy(catalog, by, value, k, result_set) ==
    IF k > Len(catalog) THEN result_set
    ELSE CollectBy(catalog, by, value, k + 1,
                   IF value.is_list
                   THEN AppendPerValue(catalog[k], by, value.list, 1,
                                       result_set)
                   ELSE IF catalog[k][by] = value.one
                        THEN Append(result_set, catalog[k])
                        ELSE result_set)

\* return result_set if len(result_set) > 1 else result_set[0]
LookupReturn(result_set) ==
    IF Len(result_set) > 1 THEN [kind |-> "list", data |-> result_set]
    ELSE IF Len(result_set) = 1
         THEN [kind |-> "object", data |-> <<result_set[1]>>]
         ELSE [kind |-> "raise", data |-> <<>>]

get_champion_by(all_champs, by, value) ==
    LookupReturn(CollectBy(all_champs, by, value, 1, <<>>))

get_season_by(all_seasons_, by, value) ==
    LookupReturn(IF by = "id"
                 THEN CollectBy(all_seasons_, by, value, 1, <<>>)
                 ELSE <<>>)

LookupCalls ==
    UNION {[fn : {"get_champion_by"}, by : {by}, value : ValueArgs(by),
            catalog : ChampionCatalogs] : by \in {"id", "key", "name"}}
    \cup [fn : {"get_season_by"}, by : {"id"}, value : ValueArgs("id"),
          catalog : SeasonCatalogs]

\* get_champion_by(by, value) returns or raises.
UtilGetChampionBy ==
    /\ util_call.fn = "get_champion_by"
    /\ util_result = NoResult
    /\ util_result' = get_champion_by(util_call.catalog, util_call.by,
                                      util_call.value)
    /\ UNCHANGED <<storeVars, instVars, callVars, histVars, util_call>>

\* get_season_by(by, value) returns or raises.
UtilGetSeasonBy ==
    /\ util_call.fn = "get_season_by"
    /\ util_result = NoResult
    /\ util_result' = get_season_by(util_call.catalog, util_call.by,
                                    util_call.value)
    /\ UNCHANGED <<storeVars, instVars, callVars, histVars, util_call>>

LookupInit ==
    /\ summoner_ids = <<>>
    /\ seasons = <<>>
    /\ champions = <<>>
    /\ summoner_id = [p \in Procs |-> None]
    /\ Constructed
    /\ util_call \in LookupCalls
    /\ util_result = NoResult

LookupNext == UtilGetChampionBy \/ UtilGetSeasonBy

LookupSpec == LookupInit /\ [][LookupNext]_vars

(***************************************************************************)
(* Champion.get_cost_in on a champion whose skins and prices were built    *)
(* by get_all_champions from raw champion data.                            *)
(***************************************************************************)

\* Most skins of a champion.
MaxSkins == 2

\* Currency strings, character by character.
RP == <<"R", "P">>

BE == <<"B", "E">>

IP == <<"I", "P">>

\* str.upper() on the letters that occur.
UpperChar(c) ==
    IF c = "r" THEN "R" ELSE IF c = "p" THEN "P" ELSE IF c = "b" THEN "B"
    ELSE IF c = "e" THEN "E" ELSE IF c = "i" THEN "I" ELSE c

Upper(str) == [k \in 1..Len(str) |-> UpperChar(str[k])]

\* '"RP" in currency'
ContainsRP(str) ==
    \E k \in 1..(Len(str) - 1) : str[k] = "R" /\ str[k + 1] = "P"

\* The prices of a skin as the remote site lists them.
RawPrice(currency, cost) == [currency |-> currency, cost |-> cost]

RawPriceLists ==
    {<<>>,
     <<RawPrice(IP, 450)>>,
     <<RawPrice(RP, 975)>>,
     <<RawPrice(IP, 450), RawPrice(RP, 260)>>}

RawSkinLists == SeqsUpTo(RawPriceLists, MaxSkins)

\* Price(currency=price.get("currency") if "RP" in price.get("currency",
\* "") else "BE", cost=price.get("cost"))
BuildPrice(price) ==
    [currency |-> IF ContainsRP(price.currency) THEN price.currency ELSE BE,
     cost |-> price.cost]

\* The skins of a champion as get_all_champions builds them: the prices of
\* each skin, in the order of the raw data.
BuildSkins(raw_skins) ==
    [k \in 1..Len(raw_skins) |->
        [j \in 1..Len(raw_skins[k]) |-> BuildPrice(raw_skins[k][j])]]

\* What get_cost_in returns: a cost, or None.
Cost(n) == [kind |-> "returned", none |-> FALSE, cost |-> n]

NoCost == [kind |-> "returned", none |-> TRUE, cost |-> 0]

\* for price in skin.prices: if price.currency == metric: return
\* price.cost, from price j of skin k on; the prices of a built skin are a
\* list, never None.
RECURSIVE FirstCost(_, _, _, _)
FirstCost(skins, metric, k, j) ==
    IF k > Len(skins) THEN NoCost
    ELSE IF j > Len(skins[k]) THEN FirstCost(skins, metric, k + 1, 1)
    ELSE IF skins[k][j].currency = metric THEN Cost(skins[k][j].cost)
    ELSE FirstCost(skins, metric, k, j + 1)

\* metric = "IP" if metric == "BE" else metric.upper()
get_cost_in(skins, metric) ==
    FirstCost(skins, IF metric = BE THEN IP ELSE Upper(metric), 1, 1)

CostCalls ==
    [fn : {"get_cost_in"},
     raw_skins : RawSkinLists,
     metric : {BE, <<"r", "p">>, RP, <<"b", "e">>}]

\* champion.get_cost_in(metric) returns.
UtilGetCostIn ==
    /\ util_call.fn = "get_cost_in"
    /\ util_result = NoResult
    /\ util_result' = get_cost_in(BuildSkins(util_call.raw_skins),
                                  util_call.metric)
    /\ UNCHANGED <<storeVars, instVars, callVars, histVars, util_call>>

CostInit ==
    /\ summoner_ids = <<>>
    /\ seasons = <<>>
    /\ champions = <<>>
    /\ summoner_id = [p \in Procs |-> None]
    /\ Constructed
    /\ util_call \in CostCalls
    /\ util_result = NoResult

CostNext == UtilGetCostIn

CostSpec == CostInit /\ [][CostNext]_vars

(***************************************************************************)
(* Properties of search.                                                   *)
(***************************************************************************)

\* Whether the name was in the summoner cache when the call of p started.
HitAtStart(p, name) == get_summoner_id(store0[p], name) # None

\* The ids of the candidates whose (game_name, tagline) is the name's
\* (name, tag) pair.
MatchingIds(name, cands) ==
    {cands[k].summoner_id : k \in
        {m \in 1..Len(cands) :
            /\ Len(Split(name, "#")) = 2
            /\ cands[m].game_name = Split(name, "#")[1]
            /\ cands[m].tagline = Split(name, "#")[2]}}

\* C1 (cache precedence): a name that the summoner cache held when the call
\* started is never among the names the call hands to get_page_props.
C1_CachePrecedence ==
    \A p \in Procs : \A k \in 1..Len(fetched[p]) :
        \A m \in 1..Len(fetched[p][k]) : ~HitAtStart(p, fetched[p][k][m])

\* A batch with a cache hit and a cache miss has been fetched for.
C1_Witness ==
    /\ fetched["p1"] # <<>>
    /\ fetched["p1"][1] # <<>>
    /\ \E k \in 1..Len(summoner_names["p1"]) :
         HitAtStart("p1", summoner_names["p1"][k])

\* C2 (write-back is observable): when search has returned, every name of
\* the batch that was a cache miss and was resolved to the id of its
\* candidate is in the store under the queried string, with that id.
C2_WriteBackObservable ==
    \A p \in Procs :
        outcome[p] = "returned" =>
            \A k \in 1..Len(summoner_names[p]) :
                (/\ ~HitAtStart(p, summoner_names[p][k])
                 /\ summoners[p][k].summoner_id
                        \in MatchingIds(summoner_names[p][k],
                                        page_props[p].summoners))
                => get_summoner_id(summoner_ids, summoner_names[p][k])
                       = summoners[p][k].summoner_id

\* The id the i-th result should carry: the cached id of a hit, the id of
\* the matching candidate of a miss.
ExpectedIds(p, name) ==
    IF HitAtStart(p, name) THEN {store0[p][name]}
    ELSE MatchingIds(name, page_props[p].summoners)

\* The remote site answered the fetch of p with one candidate per name
\* asked for and no other.
ExactCandidates(p) ==
    /\ page_props[p].kind = "props"
    /\ \A k \in 1..Len(uncached_summoners[p]) :
          MatchingIds(uncached_summoners[p][k], page_props[p].summoners) # {}
    /\ \A m \in 1..Len(page_props[p].summoners) :
          \E k \in 1..Len(uncached_summoners[p]) :
              page_props[p].summoners[m].summoner_id
                  \in MatchingIds(uncached_summoners[p][k],
                                  page_props[p].summoners)

\* C3 (order preservation): the results search returns are in the order of
\* the input names, the i-th result being that of the i-th name, for every
\* mix of hits and misses (the fetch having answered with the candidates
\* of the misses).
C3_OrderPreserved ==
    \A p \in Procs :
        (outcome[p] = "returned" /\ ExactCandidates(p))
        => \A k \in 1..Len(summoner_names[p]) :
              /\ k <= Len(result[p].items)
              /\ result[p].items[k].summoner_id
                     \in ExpectedIds(p, summoner_names[p][k])

\* C4 (one result per input name): a search that returns (the fetch having
\* answered with the candidates of the misses) has built one result and
\* sent one summary request per input name, and a one-name batch returns a
\* single Summoner, not a list.
C4_OneResultPerName ==
    \A p \in Procs :
        (outcome[p] = "returned" /\ ExactCandidates(p)) =>
            /\ Len(summoners[p]) = Len(summoner_names[p])
            /\ Len(requests[p]) = Len(summoner_names[p])
            /\ Len(summoner_names[p]) = 1 => ~result[p].list

\* C5 (disambiguation with a tag): the id chosen for a tagged name that
\* was not cached is the id of a returned candidate whose (game_name,
\* tagline) is the name's pair, whether one candidate or many came back.
C5_TagDisambiguation ==
    \A p \in Procs : \A k \in 1..Len(requests[p]) :
        (/\ k <= Len(summoner_names[p])
         /\ ~HitAtStart(p, summoner_names[p][k])
         /\ Len(page_props[p].summoners) >= 1)
        => requests[p][k]
               \in MatchingIds(summoner_names[p][k], page_props[p].summoners)

\* C6 (malformed input is fail-fast): a search that fails for a name
\* without "#" has made no cache lookup and no fetch.
C6_MalformedFailFast ==
    \A p \in Procs :
        outcome[p] = "malformed" =>
            looked_up[p] = <<>> /\ fetched[p] = <<>>

\* C7 (empty result): when no name of the batch was cached and the fetch
\* returned page props with zero candidates, search (no catalog fetch and
\* no summary request of it having failed) ends with the no-results error
\* and has written no summoner cache entry.
C7_EmptyResult ==
    \A p \in Procs :
        (/\ pc[p] = "done"
         /\ outcome[p] \notin {"key_error", "fetch_error", "summary_error"}
         /\ summoner_names[p] # <<>>
         /\ cached_summoner_ids[p] = <<>>
         /\ page_props[p].kind = "props"
         /\ page_props[p].summoners = <<>>)
        => outcome[p] = "no_results" /\ written[p] = <<>>

\* C8 (fetch failure aborts the batch): once the page-props fetch has
\* failed to parse, search builds no Summoner, writes no summoner cache
\* entry and does not return a result.
C8_FetchFailureAborts ==
    \A p \in Procs :
        page_props[p].kind = "empty" =>
            /\ summoners[p] = <<>>
            /\ written[p] = <<>>
            /\ outcome[p] # "returned"

\* The ambiguity branch of the result loop is never taken: every name that
\* reaches the loop has passed the "#" test of the partition loop.
AmbiguityNeverRaised == \A p \in Procs : outcome[p] # "ambiguous"

\* C10 (non-destructive catalog replace): no step replaces a populated
\* season or champion catalog of the store by an empty one, and a write of
\* an empty list leaves both stored catalogs as they were.
C10_NonDestructiveCatalog ==
    [][/\ seasons # <<>> => seasons' # <<>>
       /\ champions # <<>> => champions' # <<>>
       /\ \A p \in Procs :
            (/\ Len(inserted'[p]) = Len(inserted[p]) + 1
             /\ inserted'[p][Len(inserted'[p])].items = <<>>)
            => seasons' = seasons /\ champions' = champions]_vars

\* An empty list has been written over a populated catalog, which is
\* still there.
C10_Witness ==
    \E p \in Procs : \E k \in 1..Len(inserted[p]) :
        /\ inserted[p][k].items = <<>>
        /\ inserted[p][k].before # <<>>
        /\ inserted[p][k].table = "champions"
        /\ champions = inserted[p][k].before

\* The catalog fetches and the catalog writes the call of p made for a table.
FetchesOf(p, table) ==
    {k \in 1..Len(parsed[p]) : parsed[p][k].table = table}

WritesOf(p, table) ==
    {k \in 1..Len(inserted[p]) : inserted[p][k].table = table}

\* The call of p stands in, or has ended in, the result loop.
InResults(p) ==
    \/ pc[p] = "results"
    \/ outcome[p] \in {"returned", "no_results", "summary_error",
                       "value_error", "ambiguous"}

\* C11 (catalog hit by presence): a search that read a non-empty season
\* (champion) catalog from the store makes no catalog fetch and no catalog
\* write for it, and once past the catalog branches its all_seasons
\* (all_champions) is that cached catalog.
C11_CatalogHitByPresence ==
    \A p \in Procs :
        /\ cached_seasons[p] # <<>> =>
              /\ FetchesOf(p, "seasons") = {}
              /\ WritesOf(p, "seasons") = {}
              /\ InResults(p) => all_seasons[p] = cached_seasons[p]
        /\ cached_champions[p] # <<>> =>
              /\ FetchesOf(p, "champions") = {}
              /\ WritesOf(p, "champions") = {}
              /\ InResults(p) => all_champions[p] = cached_champions[p]

\* A search has returned that found the champion catalog in the store and
\* had to fetch the season catalog.
C11_Witness ==
    /\ outcome["p1"] = "returned"
    /\ cached_champions["p1"] # <<>>
    /\ all_champions["p1"] = champions
    /\ cached_seasons["p1"] = <<>>
    /\ FetchesOf("p1", "seasons") # {}

\* The last (name, id) pair of a write history.
LastWrite(log) == log[Len(log)]

\* C12 (idempotent record): a step of search that records a (name, id)
\* pair the summoner cache already holds leaves every lookup as it was.
C12_IdempotentRecord ==
    [][\A p \in Procs :
          (/\ Len(written'[p]) = Len(written[p]) + 1
           /\ get_summoner_id(summoner_ids, LastWrite(written'[p])[1])
                  = LastWrite(written'[p])[2])
          => \A name \in DOMAIN summoner_ids \cup DOMAIN summoner_ids' :
                get_summoner_id(summoner_ids', name)
                    = get_summoner_id(summoner_ids, name)]_vars

\* One search has recorded the same (name, id) pair twice, the name not
\* having been in the cache when the call started, and the cache holds it.
C12_Witness ==
    \E k, m \in 1..Len(written["p1"]) :
        /\ k < m
        /\ written["p1"][k] = written["p1"][m]
        /\ ~HitAtStart("p1", written["p1"][k][1])
        /\ get_summoner_id(summoner_ids, written["p1"][k][1])
               = written["p1"][k][2]

\* The positions of a write history that record the name.
WritesFor(log, name) == {k \in 1..Len(log) : log[k][1] = name}

\* The greatest element of a non-empty set of positions.
Latest(S) == CHOOSE k \in S : \A m \in S : m <= k

\* C13 (one entry per name, last write wins): after any sequence of
\* records into an empty summoner cache, the cache holds an entry for
\* exactly the names recorded, and the lookup of a name gives the id of
\* the most recent record of that name.
C13_LastWriteWins ==
    /\ DOMAIN summoner_ids = {written["p1"][k][1] :
                                 k \in 1..Len(written["p1"])}
    /\ \A name \in DOMAIN summoner_ids :
          get_summoner_id(summoner_ids, name)
              = written["p1"][Latest(WritesFor(written["p1"], name))][2]

\* A name has been recorded with one id and later with another, and its
\* lookup gives the later id.
C13_Witness ==
    \E k, m \in 1..Len(written["p1"]) :
        /\ k < m
        /\ m = Latest(WritesFor(written["p1"], written["p1"][k][1]))
        /\ written["p1"][k][2] # written["p1"][m][2]
        /\ get_summoner_id(summoner_ids, written["p1"][k][1])
               = written["p1"][m][2]

\* The complete catalogs a fetch can give.
FetchedSeasonCatalogs == {ParseSeasons(raw) : raw \in RawSeasonLists}
FetchedChampionCatalogs == {ParseChampions(raw) : raw \in RawChampionLists}

\* The non-empty lists the processes have written to a table.
WrittenCatalogs(table) ==
    UNION {{inserted[p][k].items : k \in WritesOf(p, table)} : p \in Procs}
    \ {<<>>}

\* C14 (no interleaved catalog): with two processes searching on one
\* store, the stored season (champion) catalog is always absent or one
\* complete fetched catalog, and once a process has written a non-empty
\* catalog it is the list of one of the writes, never two lists joined.
C14_NoInterleavedCatalog ==
    /\ seasons = <<>> \/ seasons \in FetchedSeasonCatalogs
    /\ champions = <<>> \/ champions \in FetchedChampionCatalogs
    /\ WrittenCatalogs("seasons") # {}
          => seasons \in WrittenCatalogs("seasons")
    /\ WrittenCatalogs("champions") # {}
          => champions \in WrittenCatalogs("champions")

\* Both processes found no champion catalog cached and fetched one; one
\* wrote it to the empty table and the other wrote over it.
C14_Witness ==
    \E p, q \in Procs :
        /\ p # q
        /\ cached_champions[p] = <<>> /\ cached_champions[q] = <<>>
        /\ \E k \in WritesOf(p, "champions") :
              inserted[p][k].before = <<>> /\ inserted[p][k].items # <<>>
        /\ \E k \in WritesOf(q, "champions") :
              /\ inserted[q][k].before # <<>>
              /\ inserted[q][k].items # <<>>
              /\ champions = inserted[q][k].items

\* C15 (idempotent initialisation): every construction of an OPGG
\* instance, whatever the searches of the two processes have done so far,
\* leaves the summoner entries and both catalogs of the store as they
\* were and does not fail.
C15_IdempotentInit ==
    [][\A p \in Procs :
          SetupConstruct(p) =>
              /\ summoner_ids' = summoner_ids
              /\ seasons' = seasons
              /\ champions' = champions
              /\ outcome'[p] # "setup_error"]_vars

\* A process has constructed a new instance after a search in which it
\* wrote the champion catalog (the other process, in the middle of its
\* search, read none and then wrote over one), and the store holds a
\* summoner entry and both catalogs.
C15_Witness ==
    \E p, q \in Procs :
        /\ p # q
        /\ pc[p] = "idle" /\ all_champions[p] = <<>>
        /\ pc[q] = "results"
        /\ cached_champions[q] = <<>>
        /\ \E k \in WritesOf(q, "champions") :
              inserted[q][k].before # <<>>
        /\ summoner_ids # <<>>
        /\ seasons # <<>>
        /\ champions # <<>>

\* C16 (no redundant fetch): a search whose names were all cache hits and
\* that read both catalogs from the cache has made no call of
\* get_page_props.
C16_NoRedundantFetch ==
    \A p \in Procs :
        (/\ summoner_names[p] # <<>>
         /\ uncached_summoners[p] = <<>>
         /\ cached_seasons[p] # <<>>
         /\ cached_champions[p] # <<>>)
        => fetched[p] = <<>>

\* The names of the batch of p that were cache misses (hits) when the call
\* started, in input order.
Misses(p) == SelectSeq(summoner_names[p], LAMBDA name : ~HitAtStart(p, name))
Hits(p) == SelectSeq(summoner_names[p], LAMBDA name : HitAtStart(p, name))

\* The call of p has made its get_page_props call.
PastFetch(p) == pc[p] \notin {"idle", "fetch"} /\ outcome[p] # "malformed"

\* C17 (single batched fetch over the partition): a search never calls
\* get_page_props twice; once past the call it has called it exactly once,
\* with exactly the cache misses in input order, and the hits and the
\* misses are the two parts of the batch, each name in one of them.
C17_SingleBatchedFetch ==
    \A p \in Procs :
        /\ Len(fetched[p]) <= 1
        /\ PastFetch(p) =>
              LET misses == Misses(p)
                  hits == Hits(p)
              IN  /\ Len(fetched[p]) = 1
                  /\ fetched[p][1] = misses
                  /\ uncached_summoners[p] = misses
                  /\ cached_summoner_ids[p]
                         = [k \in 1..Len(hits) |-> store0[p][hits[k]]]
                  /\ Len(cached_summoner_ids[p])
                         + Len(uncached_summoners[p])
                         = Len(summoner_names[p])

\* A batch of a miss, a hit and a different miss has been fetched for.
C17_Witness ==
    /\ PastFetch("p1")
    /\ Len(summoner_names["p1"]) = 3
    /\ ~HitAtStart("p1", summoner_names["p1"][1])
    /\ HitAtStart("p1", summoner_names["p1"][2])
    /\ ~HitAtStart("p1", summoner_names["p1"][3])
    /\ summoner_names["p1"][1] # summoner_names["p1"][3]
    /\ fetched["p1"] = <<<<summoner_names["p1"][1], summoner_names["p1"][3]>>>>

\* C18 (cache entries are not rewritten for hits): the summoner cache
\* writes of a search (the fetch having answered with the candidates of
\* the misses) are made in the turns of names that were cache misses when
\* the call started, and every entry the cache held then is as it was.
C18_NoRewriteForHits ==
    \A p \in Procs :
        ExactCandidates(p) =>
            /\ \A k \in 1..Len(written[p]) :
                  ~HitAtStart(p, summoner_names[p][k])
            /\ \A name \in DOMAIN store0[p] :
                  get_summoner_id(summoner_ids, name) = store0[p][name]

\* C19 (no stale identifier): for a name that was not cached and that no
\* returned candidate matches (none or several candidates having come
\* back, so that the loop assigns no id in the name's turn), search builds
\* no Summoner and writes no cache entry.
C19_NoStaleIdentifier ==
    \A p \in Procs : \A k \in 1..Len(summoner_names[p]) :
        (/\ page_props[p].kind = "props"
         /\ Len(page_props[p].summoners) # 1
         /\ ~HitAtStart(p, summoner_names[p][k])
         /\ MatchingIds(summoner_names[p][k], page_props[p].summoners) = {})
        => /\ Len(summoners[p]) < k
           /\ Len(written[p]) < k

\* C20 (fetched catalogs are written back): when a search that read no
\* season (champion) catalog from the cache fetched a non-empty one, then
\* from the result loop on, and so when it returns, the store holds
\* exactly that catalog and it is the instance's all_seasons
\* (all_champions).
C20_FetchedCatalogsWrittenBack ==
    \A p \in Procs :
        InResults(p) =>
            /\ \A k \in FetchesOf(p, "seasons") :
                  (cached_seasons[p] = <<>> /\ parsed[p][k].data # <<>>)
                  => /\ seasons = parsed[p][k].data
                     /\ all_seasons[p] = parsed[p][k].data
            /\ \A k \in FetchesOf(p, "champions") :
                  (cached_champions[p] = <<>> /\ parsed[p][k].data # <<>>)
                  => /\ champions = parsed[p][k].data
                     /\ all_champions[p] = parsed[p][k].data

\* A search that found neither catalog cached has fetched both, non-empty,
\* and returned.
C20_Witness ==
    /\ outcome["p1"] = "returned"
    /\ cached_seasons["p1"] = <<>>
    /\ cached_champions["p1"] = <<>>
    /\ \E k \in FetchesOf("p1", "seasons") : parsed["p1"][k].data # <<>>
    /\ \E k \in FetchesOf("p1", "champions") : parsed["p1"][k].data # <<>>

\* C21 (catalog fetchers check the cache first): a call of get_all_seasons
\* or get_all_champions on a cache that holds the catalog returns that
\* catalog from the cache, whatever page_props was passed; only with no
\* cached catalog does the result come from page props or the API.
C21_FetchersCheckCacheFirst ==
    util_result # NoResult =>
        /\ (util_call.fn = "get_all_seasons" /\ seasons # <<>>)
              => /\ util_result.data = seasons
                 /\ util_result.from = "cache"
        /\ (util_call.fn = "get_all_champions" /\ champions # <<>>)
              => /\ util_result.data = champions
                 /\ util_result.from = "cache"

\* C22 (atomic batch on failure): when search has raised in its result
\* loop after building a Summoner for an earlier name (the fetch having
\* answered with the candidates of the misses), the summoner cache is as
\* it was when the call started.
C22_AtomicBatchOnFailure ==
    \A p \in Procs :
        (/\ outcome[p] \in {"summary_error", "value_error", "ambiguous"}
         /\ summoners[p] # <<>>
         /\ ExactCandidates(p))
        => summoner_ids = store0[p]

\* The names of the batch of p that are (are not) keys of the summoner
\* cache as it was when the call started, the strings compared as they
\* are.
ExactHits(p) ==
    SelectSeq(summoner_names[p], LAMBDA name : name \in DOMAIN store0[p])
ExactMisses(p) ==
    SelectSeq(summoner_names[p], LAMBDA name : name \notin DOMAIN store0[p])

\* C23 (cache lookup is exact and region-independent): whatever region a
\* search is called with, a name is a hit exactly when the string itself
\* is a key of the summoner cache, and the id it gets is the one stored
\* under that string.
C23_ExactLookup ==
    \A p \in Procs :
        PastFetch(p) =>
            LET hits == ExactHits(p)
            IN  /\ uncached_summoners[p] = ExactMisses(p)
                /\ cached_summoner_ids[p]
                       = [k \in 1..Len(hits) |-> store0[p][hits[k]]]

\* A search with a region other than the instance's has had a hit, and a
\* miss for a name whose game name alone is a key of the cache.
C23_Witness ==
    /\ PastFetch("p1")
    /\ region_arg["p1"] = "kr"
    /\ ExactHits("p1") # <<>>
    /\ \E k \in 1..Len(ExactMisses("p1")) :
          Split(ExactMisses("p1")[k], "#")[1] \in DOMAIN store0["p1"]

\* C24 (region is set before any summary request): once a search has sent
\* a summary request, the URL the request went to, and the games URL used
\* with it, are those of the region passed to the call and of the id
\* requested, in the turns of the names and in those of the cached ids.
C24_RegionBeforeRequests ==
    \A p \in Procs :
        requests[p] # <<>> =>
            /\ api_url[p] =
                   <<"base", "summoners", region_arg[p],
                     LastWrite(requests[p]), "summary">>
            /\ games_api_url[p] =
                   <<"base", "games", region_arg[p], "summoners",
                     LastWrite(requests[p])>>

\* A search called with a region other than the instance's has sent the
\* requests of its names, a miss among them, and one for a cached id.
C24_Witness ==
    /\ region_arg["p1"] = "kr"
    /\ ExactMisses("p1") # <<>>
    /\ cached_summoner_ids["p1"] # <<>>
    /\ Len(requests["p1"]) > Len(summoner_names["p1"])

\* C25 (URL consistency): after construction and after any assignments to
\* summoner_id and region, api_url is base/summoners/<region>/<id>/summary
\* and the games URL is base/games/<region>/summoners/<id>, for the region
\* and the summoner_id the instance holds now.
C25_UrlConsistency ==
    \A p \in Procs :
        /\ api_url[p] =
               <<"base", "summoners", region[p], summoner_id[p], "summary">>
        /\ games_api_url[p] =
               <<"base", "games", region[p], "summoners", summoner_id[p]>>

\* Both properties of one instance were assigned away from the defaults,
\* and the other instance holds a third region.
C25_Witness ==
    /\ region["p1"] = "kr"
    /\ summoner_id["p1"] \in SummonerIds
    /\ region["p2"] = "euw"
    /\ summoner_id["p2"] \in SummonerIds \ {summoner_id["p1"]}

\* C26 (graceful degradation in get_summoner): for any non-empty payload
\* get_summoner returns a Summoner whose league_stats, most_champions and
\* recent games are those of the payload and of the games reply, whatever
\* the previous seasons of the payload are (one whose season_id is not in
\* the season catalog included).
C26_GracefulDegradation ==
    (util_call.fn = "get_summoner" /\ util_result # NoResult
        /\ ~util_call.content.empty
        /\ util_call.content.has_league_stats
        /\ util_call.games.ok) =>
        /\ util_result.kind = "summoner"
        /\ util_result.league_stats = util_call.content.league_stats
        /\ [k \in 1..Len(util_result.most_champions) |->
               util_result.most_champions[k].id] =
           util_call.content.champion_stats
        /\ util_result.recent_game_stats = util_call.games.data

\* C27 (string and list inputs are equivalent): search given the names of
\* a batch joined by commas in one string goes on with the same list of
\* names as search given the list, and all it does afterwards (lookups,
\* fetch argument, results, cache writes) is read from that list.
C27_StringAndListEquivalent ==
    (util_call.fn = "search" /\ util_result # NoResult) =>
        /\ util_result.of_str = util_result.of_list
        /\ util_result.of_list = util_call.names

\* A string of three names was split, a blank and an empty name among them.
C27_Witness ==
    /\ util_call.fn = "search"
    /\ util_result # NoResult
    /\ Len(util_call.names) = 3
    /\ util_call.names[2] = <<" ", "b", "#", "1">>
    /\ util_call.names[3] = <<>>
    /\ Len(util_result.of_str) = 3

\* The entries of a lookup's catalog that match the value or one of the
\* values asked for, each once, in catalog order.
MatchingEntries ==
    LET wanted == IF util_call.value.is_list
                  THEN {util_call.value.list[k] :
                            k \in 1..Len(util_call.value.list)}
                  ELSE {util_call.value.one}
        Matches(entry) == entry[util_call.by] \in wanted
    IN  SelectSeq(util_call.catalog, Matches)

\* C28 (lookup-by result): get_champion_by (by id, key, name) and
\* get_season_by (by id) return exactly the catalog entries that match the
\* value or the values, each entry once and in catalog order: the list
\* when more than one entry matches, the object itself when one does.
C28_LookupByResult ==
    (util_call.fn \in {"get_champion_by", "get_season_by"}
        /\ util_result # NoResult /\ MatchingEntries # <<>>) =>
        IF Len(MatchingEntries) > 1
        THEN util_result = [kind |-> "list", data |-> MatchingEntries]
        ELSE util_result = [kind |-> "object", data |-> MatchingEntries]

\* The prices of the base skin of the champion of a get_cost_in call that
\* are in the given currency, as stored.
BasePrices(currency) ==
    IF util_call.raw_skins = <<>> THEN <<>>
    ELSE SelectSeq(BuildSkins(util_call.raw_skins)[1],
                   LAMBDA price : price.currency = currency)

\* C29 (champion cost lookup): for a champion built by get_all_champions
\* whose base skin has a blue-essence price, get_cost_in('BE') returns the
\* cost of that price, and for one whose base skin has a riot-points
\* price get_cost_in('rp') returns the cost of that price.
C29_CostLookup ==
    (util_call.fn = "get_cost_in" /\ util_result # NoResult) =>
        /\ (util_call.metric = BE /\ BasePrices(BE) # <<>>) =>
               util_result = Cost(BasePrices(BE)[1].cost)
        /\ (util_call.metric = <<"r", "p">> /\ BasePrices(RP) # <<>>) =>
               util_result = Cost(BasePrices(RP)[1].cost)

====
